---- MODULE Spec2Model ----
(***************************************************************************)
(* A model of ResumeAnalyzer (RESUME_EXTRACTOR/main.py): extract_text,     *)
(* clean_text, the contact extraction, the section segmentation loop,      *)
(* calculate_experience_level and analyze_personality, as driven by        *)
(* parse.  Python strings are TLA+ strings; a character is a string of     *)
(* length one, read with SubSeq.                                           *)
(***************************************************************************)
EXTENDS Integers, Sequences, FiniteSets, TLC

VARIABLES
  file,                 \* the document parse is called on: extension, pages/paragraphs
  nlp,                  \* self.nlp: the tokenizer, or None
  pc,                   \* position inside parse
  raw_text,             \* parse: raw_text (None or <<text>>)
  clean_raw_text,       \* parse: clean_raw_text
  lines,                \* parse: lines
  data,                 \* parse: data, the record under construction
  i,                    \* parse: index of the next line of the segmentation loop
  current_section,      \* parse: current_section
  section_text,         \* parse: section_text
  full_experience_text, \* parse: full_experience_text
  years,                \* calculate_experience_level: years
  estimated_years,      \* calculate_experience_level: estimated_years
  title_bump,           \* calculate_experience_level: title_bump
  result,               \* what parse returned
  probe                 \* arguments and results of a direct call of the rule cascade

vars == <<file, nlp, pc, raw_text, clean_raw_text, lines, data, i, current_section,
          section_text, full_experience_text, years, estimated_years, title_bump,
          result, probe>>

-----------------------------------------------------------------------------
(* Bounds of the model *)

\* pages (or paragraphs) of a document
MaxUnits == 2
\* largest year span handed to the rule cascade when it is called directly
MaxSpan == 9

-----------------------------------------------------------------------------
(* Python values *)

\* Python's None; an optional text is None or <<text>>
None == <<>>

Some(t) == <<t>>

\* the value meaning "not assigned yet" in the model of a local variable
Unset == "<unset>"

-----------------------------------------------------------------------------
(* str operations *)

Ch(s, k) == SubSeq(s, k, k)

UpperLetters == "ABCDEFGHIJKLMNOPQRSTUVWXYZ"

LowerLetters == "abcdefghijklmnopqrstuvwxyz"

Digits == "0123456789"

CharsOf(s) == {Ch(s, k) : k \in 1..Len(s)}

UpperSet == CharsOf(UpperLetters)

LowerSet == CharsOf(LowerLetters)

DigitSet == CharsOf(Digits)

Whitespace == {" ", "\n", "\t", "\r"}

\* str.isspace on one character (the whitespace of the documents of the model)
IsSpace(c) == c \in Whitespace

\* a character of the regex class \w
IsWordCh(c) == c \in UpperSet \cup LowerSet \cup DigitSet \cup {"_"}

LowerTable == [c \in UpperSet |->
                 Ch(LowerLetters, CHOOSE k \in 1..26 : Ch(UpperLetters, k) = c)]

LowerCh(c) == IF c \in UpperSet THEN LowerTable[c] ELSE c

RECURSIVE Concat(_, _, _)
\* "".join(parts[lo..hi]), by halves
Concat(parts, lo, hi) ==
  IF lo > hi THEN ""
  ELSE IF lo = hi THEN parts[lo]
  ELSE Concat(parts, lo, (lo + hi) \div 2) \o Concat(parts, (lo + hi) \div 2 + 1, hi)

\* str.lower()
Lower(s) == Concat([k \in 1..Len(s) |-> LowerCh(Ch(s, k))], 1, Len(s))

\* str.strip(): both ends, all whitespace
Strip(s) ==
  LET keep == {k \in 1..Len(s) : ~IsSpace(Ch(s, k))}
  IN  IF keep = {} THEN ""
      ELSE SubSeq(s, CHOOSE k \in keep : \A m \in keep : k <= m,
                     CHOOSE k \in keep : \A m \in keep : k >= m)

\* k in s
Contains(k, s) == \E p \in 1..(Len(s) - Len(k) + 1) : SubSeq(s, p, p + Len(k) - 1) = k

\* the positions of s where an occurrence of k starts
Occurrences(s, k) == {p \in 1..(Len(s) - Len(k) + 1) : SubSeq(s, p, p + Len(k) - 1) = k}

RECURSIVE CountAmong(_, _, _)
\* how many occurrences a left-to-right scan takes: each one taken skips those it overlaps
CountAmong(occ, width, from) ==
  LET left == {p \in occ : p >= from}
  IN  IF left = {} THEN 0
      ELSE 1 + CountAmong(left, width, (CHOOSE p \in left : \A q \in left : p <= q) + width)

\* s.count(k): the non-overlapping occurrences, left to right
Count(s, k) == CountAmong(Occurrences(s, k), Len(k), 1)

Min(S) == CHOOSE x \in S : \A y \in S : x <= y

Max(S) == CHOOSE x \in S : \A y \in S : x >= y

\* the elements of a set of integers, ascending
SeqOfSet(S) ==
  [j \in 1..Cardinality(S) |-> CHOOSE x \in S : Cardinality({y \in S : y < x}) = j - 1]

\* the first position >= p of t whose character is not in class, Len(t) + 1 if none
RunEnd(t, p, class) ==
  LET out == {q \in p..Len(t) : Ch(t, q) \notin class}
  IN  IF out = {} THEN Len(t) + 1 ELSE Min(out)

\* s.split(sep) for a one-character separator: the pieces between the separators
Split(s, sep) ==
  LET cuts == SeqOfSet({q \in 1..Len(s) : Ch(s, q) = sep})
      from(j) == IF j = 1 THEN 1 ELSE cuts[j - 1] + 1
      upto(j) == IF j > Len(cuts) THEN Len(s) ELSE cuts[j] - 1
  IN  [j \in 1..(Len(cuts) + 1) |-> SubSeq(s, from(j), upto(j))]

\* the first whitespace position >= p of s, Len(s) + 1 if none
NextSpace(s, p) ==
  LET sp == {q \in p..Len(s) : IsSpace(Ch(s, q))}
  IN  IF sp = {} THEN Len(s) + 1 ELSE Min(sp)

\* s.split(): the whitespace-delimited tokens, each a maximal run without whitespace
Words(s) ==
  LET starts == SeqOfSet({q \in 1..Len(s) :
                            ~IsSpace(Ch(s, q)) /\ (q = 1 \/ IsSpace(Ch(s, q - 1)))})
  IN  [j \in 1..Len(starts) |-> SubSeq(s, starts[j], NextSpace(s, starts[j]) - 1)]

\* re.sub(r'\n+', '\n', s): every run of newlines becomes one newline, so a newline
\* that follows a newline goes
SquashNewlines(s) ==
  Concat([k \in 1..Len(s) |->
            IF Ch(s, k) = "\n" /\ k > 1 /\ Ch(s, k - 1) = "\n" THEN "" ELSE Ch(s, k)],
         1, Len(s))

DigitVal(c) == CHOOSE d \in 0..9 : Ch(Digits, d + 1) = c

RECURSIVE IntOf(_)
\* int(s) for a string of digits
IntOf(s) ==
  IF s = "" THEN 0
  ELSE 10 * IntOf(SubSeq(s, 1, Len(s) - 1)) + DigitVal(Ch(s, Len(s)))

RECURSIVE StrOf(_)
\* str(n) for n >= 0
StrOf(n) == IF n < 10 THEN Ch(Digits, n + 1) ELSE StrOf(n \div 10) \o Ch(Digits, (n % 10) + 1)

RECURSIVE Insert(_, _)
Insert(x, s) ==
  IF s = <<>> THEN <<x>>
  ELSE IF x <= Head(s) THEN <<x>> \o s ELSE <<Head(s)>> \o Insert(x, Tail(s))

RECURSIVE Sorted(_)
\* sorted(s) for a list of integers
Sorted(s) == IF s = <<>> THEN <<>> ELSE Insert(Head(s), Sorted(Tail(s)))

-----------------------------------------------------------------------------
(* regex matching *)

\* whether position p of t (1..Len(t)) holds a \w character
WordAt(t, p) == p >= 1 /\ p <= Len(t) /\ IsWordCh(Ch(t, p))

\* the regex \b between positions p - 1 and p
Boundary(t, p) == WordAt(t, p - 1) # WordAt(t, p)

DigitsAt(t, p, n) == p + n - 1 <= Len(t) /\ \A q \in p..(p + n - 1) : Ch(t, q) \in DigitSet

\* 1 if the character at p is in class (an optional item of a regex takes it), else 0
Opt(t, p, class) == IF p <= Len(t) /\ Ch(t, p) \in class THEN 1 ELSE 0

\* self.email_pattern = r'\b[A-Za-z0-9._%+-]+@[A-Za-z0-9.-]+\.[A-Z|a-z]{2,}\b'
EmailLocal == UpperSet \cup LowerSet \cup DigitSet \cup {".", "_", "%", "+", "-"}

EmailDomain == UpperSet \cup LowerSet \cup DigitSet \cup {".", "-"}

EmailTld == UpperSet \cup LowerSet \cup {"|"}

\* the end (exclusive) of the match of email_pattern that starts at s, 0 if none:
\* both greedy runs are maximal, the last usable dot of the domain is taken,
\* then the longest top-level part that ends on a \b
EmailEndAt(t, s) ==
  IF ~(s <= Len(t) /\ Boundary(t, s) /\ Ch(t, s) \in EmailLocal) THEN 0
  ELSE LET at == RunEnd(t, s, EmailLocal)
       IN  IF ~(at <= Len(t) /\ Ch(t, at) = "@") THEN 0
           ELSE LET e2 == RunEnd(t, at + 1, EmailDomain)
                    ends(d) == {f \in (d + 3)..RunEnd(t, d + 1, EmailTld) : Boundary(t, f)}
                    dots == {d \in (at + 2)..(e2 - 1) : Ch(t, d) = "." /\ ends(d) # {}}
                IN  IF dots = {} THEN 0 ELSE Max(ends(Max(dots)))

\* re.search(self.email_pattern, t): None, or <<group(0)>> of the leftmost match
SearchEmail(t) ==
  LET starts == {s \in 1..Len(t) : EmailEndAt(t, s) # 0}
  IN  IF starts = {} THEN None
      ELSE LET s == Min(starts) IN Some(SubSeq(t, s, EmailEndAt(t, s) - 1))

\* self.phone_pattern = r'(\+?\d{1,3}[-.\s]?)?\(?\d{3}\)?[-.\s]?\d{3}[-.\s]?\d{4}'
PhoneSep == {"-", ".", " ", "\n", "\t", "\r"}

\* \(?\d{3}\)?[-.\s]?\d{3}[-.\s]?\d{4} at p: its end (exclusive), 0 if no match
PhoneCoreEnd(t, p) ==
  LET p1 == p + Opt(t, p, {"("})
      p2 == p1 + 3
      p3 == p2 + Opt(t, p2, {")"})
      p4 == p3 + Opt(t, p3, PhoneSep)
      p5 == p4 + 3
      p6 == p5 + Opt(t, p5, PhoneSep)
  IN  IF DigitsAt(t, p1, 3) /\ DigitsAt(t, p4, 3) /\ DigitsAt(t, p6, 4) THEN p6 + 4 ELSE 0

\* the pattern with its optional group (\+?\d{1,3}[-.\s]?) taking n digits
PhonePrefixedEnd(t, s, n) ==
  LET q == s + Opt(t, s, {"+"})
      r == q + n
  IN  IF DigitsAt(t, q, n) THEN PhoneCoreEnd(t, r + Opt(t, r, PhoneSep)) ELSE 0

\* the end (exclusive) of the match of phone_pattern that starts at s, 0 if none:
\* the group is tried first, with 3, 2, then 1 digits, then the pattern without it
PhoneEndAt(t, s) ==
  IF PhonePrefixedEnd(t, s, 3) # 0 THEN PhonePrefixedEnd(t, s, 3)
  ELSE IF PhonePrefixedEnd(t, s, 2) # 0 THEN PhonePrefixedEnd(t, s, 2)
  ELSE IF PhonePrefixedEnd(t, s, 1) # 0 THEN PhonePrefixedEnd(t, s, 1)
  ELSE PhoneCoreEnd(t, s)

\* re.search(self.phone_pattern, t): None, or <<group(0)>> of the leftmost match
SearchPhone(t) ==
  LET starts == {s \in 1..Len(t) : PhoneEndAt(t, s) # 0}
  IN  IF starts = {} THEN None
      ELSE LET s == Min(starts) IN Some(SubSeq(t, s, PhoneEndAt(t, s) - 1))

\* self.year_pattern = r'\b(19|20)\d{2}\b': the start of every match, ascending
\* (a match is four characters between two \b, so no two matches overlap)
YearMatchAt(t, p) ==
  /\ p + 3 <= Len(t)
  /\ Boundary(t, p)
  /\ SubSeq(t, p, p + 1) \in {"19", "20"}
  /\ DigitsAt(t, p + 2, 2)
  /\ Boundary(t, p + 4)

YearMatches(t) == SeqOfSet({p \in 1..Len(t) : YearMatchAt(t, p)})

-----------------------------------------------------------------------------
(* ResumeAnalyzer.__init__: the tables *)

\* the keys of self.sections_keywords, in the order the dict iterates them
SectionOrder == <<"education", "skills", "experience", "achievements", "projects">>

SectionTags == {SectionOrder[k] : k \in 1..Len(SectionOrder)}

sections_keywords ==
  [education |-> <<"education", "academic", "qualifications", "university", "college">>,
   skills |-> <<"skills", "technologies", "technical skills", "competencies", "stack">>,
   experience |-> <<"experience", "work history", "employment", "internships", "career",
                    "professional experience">>,
   achievements |-> <<"achievements", "certifications", "awards", "honors", "licenses">>,
   projects |-> <<"projects", "portfolio">>]

\* the keys of self.personality_keywords
Traits == {"Leadership", "Teamwork", "Communication", "Problem Solving", "Creativity",
           "Adaptability"}

personality_keywords ==
  ("Leadership" :> <<"led", "managed", "spearheaded", "oversaw", "directed", "supervised",
                     "guided", "mentored", "chief", "head">>)
  @@ ("Teamwork" :> <<"collaborated", "team", "partnered", "assisted", "supported",
                      "cooperated", "joint", "group", "member">>)
  @@ ("Communication" :> <<"presented", "negotiated", "authored", "wrote", "corresponded",
                           "spoke", "briefed", "explained", "facilitated">>)
  @@ ("Problem Solving" :> <<"solved", "resolved", "debugged", "fixed", "troubleshot",
                             "analyzed", "diagnosed", "improved", "optimized">>)
  @@ ("Creativity" :> <<"designed", "created", "innovated", "architected", "developed",
                        "conceptualized", "drafted", "originated">>)
  @@ ("Adaptability" :> <<"adapted", "adjusted", "flexible", "versatile", "changed",
                          "learned", "migrated", "transitioned">>)

\* any(k in s for k in keywords)
AnyIn(keywords, s) == \E k \in 1..Len(keywords) : Contains(keywords[k], s)

\* spacy's pipeline is a library outside the repository: self.nlp is None (the
\* model could not be loaded) or one of two stand-in tokenizers that bracket what
\* a tokenizer may return: "surface" lemmatizes every token to itself and knows
\* no stop word, "stop" filters every token out
Tokenizers == {"surface", "stop"}

-----------------------------------------------------------------------------
(* extract_text *)

\* the text of page k of a PDF (page.extract_text()) or of paragraph k of a DOCX
RECURSIVE ReadUnits(_, _, _)
ReadUnits(units, k, skipEmpty) ==
  IF k > Len(units) THEN ""
  ELSE (IF skipEmpty /\ units[k] = "" THEN "" ELSE units[k] \o "\n")
       \o ReadUnits(units, k + 1, skipEmpty)

\* extract_text(filepath): None when reading throws, else the text read
extract_text(f) ==
  IF f.throws THEN None
  ELSE IF f.ext = ".pdf" THEN Some(ReadUnits(f.units, 1, TRUE))
  ELSE IF f.ext \in {".docx", ".doc"} THEN Some(ReadUnits(f.units, 1, FALSE))
  ELSE Some("")

\* "raw_text is None" in place of "not raw_text": an empty text is let through
FalsyOnlyNone(x) == x = None

\* Python's "not x" for an optional text: None and "" are falsy
Falsy(x) == IF x = None THEN TRUE ELSE x[1] = ""

\* clean_text(text)
clean_text(text) == IF text = "" THEN "" ELSE Strip(SquashNewlines(text))

-----------------------------------------------------------------------------
(* parse: the contact extraction *)

NotFound == "Not Found"

\* the loop over lines[:5] that picks the name
NameCandidate(line) ==
  /\ Len(Strip(line)) > 2
  /\ ~Contains("resume", Lower(Strip(line)))
  /\ ~Contains("@", Strip(line))

FullName(ls) ==
  LET ok == {k \in 1..Len(ls) : k <= 5 /\ NameCandidate(ls[k])}
  IN  IF ok = {} THEN NotFound ELSE Strip(ls[Min(ok)])

\* the "Not Found" default of data["Email"] left out
EmailNoDefault(t) == IF SearchEmail(t) = None THEN "" ELSE SearchEmail(t)[1]

Email(t) == IF SearchEmail(t) = None THEN NotFound ELSE SearchEmail(t)[1]

Phone(t) == IF SearchPhone(t) = None THEN NotFound ELSE SearchPhone(t)[1]

\* data as parse has it when the segmentation loop starts
InitialData(t, ls) ==
  ("Full Name" :> FullName(ls)) @@ ("Email" :> Email(t)) @@ ("Phone" :> Phone(t))
  @@ ("Skills" :> <<>>) @@ ("Education" :> <<>>) @@ ("Experience" :> <<>>)
  @@ ("Achievements" :> <<>>) @@ ("AI_Analysis" :> <<>>)

-----------------------------------------------------------------------------
(* parse: the section segmentation *)

\* the test of the inner loop, for one section
IsHeaderOf(section, clean_line) ==
  AnyIn(sections_keywords[section], clean_line) /\ Len(Words(clean_line)) < 5

\* the inner loop without its break: the last section that matches wins
HeaderSectionLast(clean_line) ==
  LET hit == {k \in 1..Len(SectionOrder) : IsHeaderOf(SectionOrder[k], clean_line)}
  IN  IF hit = {} THEN None ELSE Some(SectionOrder[Max(hit)])

\* the inner loop over sections_keywords.items(): None when no section matches
\* (is_header stays False), else the first section that does, where it breaks
HeaderSection(clean_line) ==
  LET hit == {k \in 1..Len(SectionOrder) : IsHeaderOf(SectionOrder[k], clean_line)}
  IN  IF hit = {} THEN None ELSE Some(SectionOrder[Min(hit)])

\* the test "if line.strip():" left out
AppendLineAlways(st, cur, line) ==
  IF cur # None THEN [st EXCEPT ![cur[1]] = Append(@, Strip(line))] ELSE st

\* section_text after the body of the outer loop ran on line, a non-header
AppendLine(st, cur, line) ==
  IF cur # None /\ Strip(line) # ""
  THEN [st EXCEPT ![cur[1]] = Append(@, Strip(line))]
  ELSE st

\* full_experience_text after the body of the outer loop ran on line, a non-header
AppendExperience(fet, cur, line) ==
  IF cur # None /\ Strip(line) # "" /\ cur[1] = "experience"
  THEN fet \o line \o " "
  ELSE fet

-----------------------------------------------------------------------------
(* calculate_experience_level *)

\* datetime.now().year
CurrentYear == 2026

\* the lower limit of the filter on years
FirstYear == 1980

\* re.findall(self.year_pattern, t): the pattern has one capturing group, so
\* findall returns, for every match, what the group (19|20) matched
FindAllYears(t) ==
  [k \in 1..Len(YearMatches(t)) |-> SubSeq(t, YearMatches(t)[k], YearMatches(t)[k] + 1)]

InRange(y) == FirstYear <= y /\ y <= CurrentYear

\* lines 80-81: years
DetectedYears(experience_section_text) ==
  LET found == FindAllYears(experience_section_text)
      ints == [k \in 1..Len(found) |-> IntOf(found[k])]
  IN  Sorted(SelectSeq(ints, InRange))

\* lines 83-85: estimated_years
EstimatedYears(ys) == IF ys # <<>> THEN ys[Len(ys)] - ys[1] ELSE 0

\* lines 88-92: title_bump
TitleBump(text) ==
  LET text_lower == Lower(text)
  IN  \/ Contains("senior", text_lower)
      \/ Contains("manager", text_lower)
      \/ Contains("lead", text_lower)
      \/ Contains("architect", text_lower)

\* line 98: any(k in text_lower for k in ["fresher", "graduate", "entry level"])
HasFresherKeyword(text) == AnyIn(<<"fresher", "graduate", "entry level">>, Lower(text))

\* the Mid-Level range closed at 7: "3 <= estimated_years <= 7"
LevelSeniorLate(est, bump, fresher) ==
  IF est <= 1 /\ fresher THEN "Fresher / Entry-Level"
  ELSE IF est = 0 /\ ~bump THEN "Entry-Level (Uncertain)"
  ELSE LET base == IF est < 3 THEN "Junior"
                   ELSE IF 3 <= est /\ est <= 7 THEN "Mid-Level"
                   ELSE "Senior"
           boosted == IF bump /\ base = "Junior" /\ est > 1 THEN "Junior-Mid" ELSE base
       IN  IF bump /\ boosted = "Mid-Level" THEN "Mid-Senior" ELSE boosted

\* the fresher override with its comparison turned round: "estimated_years >= 1"
LevelFresherFlipped(est, bump, fresher) ==
  IF est >= 1 /\ fresher THEN "Fresher / Entry-Level"
  ELSE IF est = 0 /\ ~bump THEN "Entry-Level (Uncertain)"
  ELSE LET base == IF est < 3 THEN "Junior"
                   ELSE IF 3 <= est /\ est < 7 THEN "Mid-Level"
                   ELSE "Senior"
           boosted == IF bump /\ base = "Junior" /\ est > 1 THEN "Junior-Mid" ELSE base
       IN  IF bump /\ boosted = "Mid-Level" THEN "Mid-Senior" ELSE boosted

\* lines 95-118: the level returned
Level(est, bump, fresher) ==
  IF est <= 1 /\ fresher THEN "Fresher / Entry-Level"
  ELSE IF est = 0 /\ ~bump THEN "Entry-Level (Uncertain)"
  ELSE LET base == IF est < 3 THEN "Junior"
                   ELSE IF 3 <= est /\ est < 7 THEN "Mid-Level"
                   ELSE "Senior"
           boosted == IF bump /\ base = "Junior" /\ est > 1 THEN "Junior-Mid" ELSE base
       IN  IF bump /\ boosted = "Mid-Level" THEN "Mid-Senior" ELSE boosted

\* min(years) if years else '?', and the same with max, as the f-string prints them
YearOrUnknown(ys, k) == IF ys # <<>> THEN StrOf(ys[k]) ELSE "?"

\* lines 95-118: the explanation returned
Detail(est, bump, fresher, ys) ==
  IF est <= 1 /\ fresher THEN "0-1 Years (inferred)"
  ELSE IF est = 0 /\ ~bump THEN "No dates found"
  ELSE StrOf(est) \o " Years detected (" \o YearOrUnknown(ys, 1) \o " - "
       \o YearOrUnknown(ys, Len(ys)) \o ")"

-----------------------------------------------------------------------------
(* analyze_personality *)

\* a token all of whose characters are punctuation (token.is_punct)
IsPunct(w) == \A k \in 1..Len(w) : ~IsWordCh(Ch(w, k))

NotPunct(w) == ~IsPunct(w)

\* lines 128-129: the lemmas of the tokens that are neither stop words nor punctuation
Lemmas(tokenizer, text_lower) ==
  IF tokenizer = "surface" THEN SelectSeq(Words(text_lower), NotPunct) ELSE <<>>

\* counts[k] for counts = Counter(tokens)
CountOf(tokens, k) == Cardinality({j \in 1..Len(tokens) : tokens[j] = k})

RECURSIVE ScoreFrom(_, _, _, _)
ScoreFrom(keywords, j, tokens, text_lower) ==
  IF j > Len(keywords) THEN 0
  ELSE CountOf(tokens, keywords[j]) + Count(text_lower, keywords[j])
       + ScoreFrom(keywords, j + 1, tokens, text_lower)

\* lines 135-140: the score of one trait
Score(keywords, tokens, text_lower) == ScoreFrom(keywords, 1, tokens, text_lower)

\* "score > 10" in place of "score >= 10"
RatingHighAbove10(score) ==
  IF score > 10 THEN "High"
  ELSE IF score >= 4 THEN "Medium"
  ELSE IF score > 0 THEN "Low"
  ELSE "Not Detected"

\* lines 144-151: the rating of a score
Rating(score) ==
  IF score >= 10 THEN "High"
  ELSE IF score >= 4 THEN "Medium"
  ELSE IF score > 0 THEN "Low"
  ELSE "Not Detected"

\* the early return of lines 125-126 left out: without a tokenizer no token is
\* counted and the substring counts alone are rated
analyze_personality_ungated(nlpv, text) ==
  LET tokens == IF nlpv = None THEN <<>> ELSE Lemmas(nlpv[1], Lower(text))
      score == [t \in Traits |-> Score(personality_keywords[t], tokens, Lower(text))]
  IN  [t \in Traits |-> <<Rating(score[t]), score[t]>>]

\* analyze_personality(text) with self.nlp = nlpv
analyze_personality(nlpv, text) ==
  IF nlpv = None THEN [t \in Traits |-> <<"N/A", 0>>]
  ELSE LET tokens == Lemmas(nlpv[1], Lower(text))
           score == [t \in Traits |-> Score(personality_keywords[t], tokens, Lower(text))]
       IN  [t \in Traits |-> <<Rating(score[t]), score[t]>>]

-----------------------------------------------------------------------------
(* The documents of the model *)

\* what a page of a PDF or a paragraph of a DOCX may hold
UnitPool ==
  {"John Doe\njohn@x.com\n555-123-4567",
   "EXPERIENCE\nLed team 2015\nManaged project 2020",
   "",
   " ",
   "Skills and Education",
   "Senior Architect\n+1 (555) 123-4567",
   "graduate with great team experience",
   "team group member joint",
   "PROJECTS\n\nmentored teams\n \n2019"}

RECURSIVE SeqsUpTo(_, _)
\* the sequences over S of length at most n
SeqsUpTo(S, n) ==
  IF n = 0 THEN {<<>>}
  ELSE LET shorter == SeqsUpTo(S, n - 1)
       IN  shorter \cup {Append(q, x) : q \in {r \in shorter : Len(r) = n - 1}, x \in S}

Files ==
  {[ext |-> e, throws |-> FALSE, units |-> u] :
      e \in {".pdf", ".docx"}, u \in SeqsUpTo(UnitPool, MaxUnits)}
  \cup {[ext |-> e, throws |-> TRUE, units |-> u] :
      e \in {".pdf", ".doc"}, u \in SeqsUpTo(UnitPool, 1)}
  \cup {[ext |-> ".txt", throws |-> FALSE, units |-> u] : u \in SeqsUpTo(UnitPool, 1)}

NoProbe == [st |-> "none"]

-----------------------------------------------------------------------------
(* parse, step by step *)

\* the locals of parse before the call
ParseLocalsUnset ==
  /\ raw_text = None
  /\ clean_raw_text = Unset
  /\ lines = <<>>
  /\ data = <<>>
  /\ i = 0
  /\ current_section = None
  /\ section_text = <<>>
  /\ full_experience_text = Unset
  /\ years = <<>>
  /\ estimated_years = 0
  /\ title_bump = FALSE
  /\ result = <<>>

\* a ResumeAnalyzer was constructed and parse(filepath) is about to run
Init ==
  /\ file \in Files
  /\ nlp \in {None} \cup {Some(t) : t \in Tokenizers}
  /\ pc = "start"
  /\ ParseLocalsUnset
  /\ probe = NoProbe

\* line 158
ExtractText ==
  /\ pc = "start"
  /\ raw_text' = extract_text(file)
  /\ pc' = "extracted"
  /\ UNCHANGED <<file, nlp, clean_raw_text, lines, data, i, current_section,
                 section_text, full_experience_text, years, estimated_years,
                 title_bump, result, probe>>

\* lines 159-160
ParseReject ==
  /\ pc = "extracted"
  /\ Falsy(raw_text)
  /\ result' = ("Error" :> "Could not extract text.")
  /\ pc' = "done"
  /\ UNCHANGED <<file, nlp, raw_text, clean_raw_text, lines, data, i, current_section,
                 section_text, full_experience_text, years, estimated_years,
                 title_bump, probe>>

\* lines 162-192
ParseBegin ==
  /\ pc = "extracted"
  /\ ~Falsy(raw_text)
  /\ clean_raw_text' = clean_text(raw_text[1])
  /\ lines' = Split(clean_raw_text', "\n")
  /\ data' = InitialData(clean_raw_text', lines')
  /\ current_section' = None
  /\ section_text' = [t \in SectionTags |-> <<>>]
  /\ full_experience_text' = ""
  /\ i' = 1
  /\ pc' = "segment"
  /\ UNCHANGED <<file, nlp, raw_text, years, estimated_years, title_bump, result, probe>>

\* lines 194-209: one round of the loop over lines
SegmentLine ==
  /\ pc = "segment"
  /\ i <= Len(lines)
  /\ LET line == lines[i]
         clean_line == Lower(Strip(line))
         header == HeaderSection(clean_line)
     IN  IF header # None
         THEN /\ current_section' = header
              /\ UNCHANGED <<section_text, full_experience_text>>
         ELSE /\ section_text' = AppendLine(section_text, current_section, line)
              /\ full_experience_text' =
                   AppendExperience(full_experience_text, current_section, line)
              /\ UNCHANGED current_section
  /\ i' = i + 1
  /\ UNCHANGED <<file, nlp, pc, raw_text, clean_raw_text, lines, data, years,
                 estimated_years, title_bump, result, probe>>

\* lines 211-226, with the calls of calculate_experience_level and analyze_personality
Analyse ==
  /\ pc = "segment"
  /\ i > Len(lines)
  /\ years' = DetectedYears(full_experience_text)
  /\ estimated_years' = EstimatedYears(years')
  /\ title_bump' = TitleBump(clean_raw_text)
  /\ LET fresher == HasFresherKeyword(clean_raw_text)
         exp_level == Level(estimated_years', title_bump', fresher)
         exp_details == Detail(estimated_years', title_bump', fresher, years')
         personality_traits == analyze_personality(nlp, clean_raw_text)
     IN  data' = [data EXCEPT !["Education"] = section_text["education"],
                              !["Skills"] = section_text["skills"],
                              !["Experience"] = section_text["experience"],
                              !["Achievements"] = section_text["achievements"],
                              !["AI_Analysis"] =
                                 [Experience_Level |-> exp_level,
                                  Experience_Detail |-> exp_details,
                                  Personality |-> personality_traits]]
  /\ result' = data'
  /\ pc' = "done"
  /\ UNCHANGED <<file, nlp, raw_text, clean_raw_text, lines, i, current_section,
                 section_text, full_experience_text, probe>>

Next == ExtractText \/ ParseReject \/ ParseBegin \/ SegmentLine \/ Analyse

Spec == Init /\ [][Next]_vars

-----------------------------------------------------------------------------
(* The rule cascade of calculate_experience_level, called directly *)

\* a list of years whose span is est, as line 81 would leave it; none when undated
YearsOfSpan(est, dated) == IF dated THEN <<CurrentYear - MaxSpan - 1, CurrentYear - MaxSpan - 1 + est>> ELSE <<>>

Probes ==
  {[st |-> "call", a |-> a, b |-> b, bump |-> bump, fresher |-> fresher, dated |-> dated,
    la |-> Unset, da |-> Unset, lb |-> Unset, db |-> Unset] :
      a \in 0..MaxSpan, b \in 0..MaxSpan, bump \in BOOLEAN, fresher \in BOOLEAN,
      dated \in BOOLEAN}

\* the cascade is about to run on two spans a <= b with the same keyword flags;
\* a span above 0 comes from dates
LevelInit ==
  /\ probe \in {p \in Probes : p.a <= p.b /\ (p.a > 0 => p.dated)}
  /\ file = [ext |-> ".txt", throws |-> FALSE, units |-> <<>>]
  /\ nlp = None
  /\ pc = "idle"
  /\ ParseLocalsUnset

\* lines 94-118 on both spans
CascadeCall ==
  /\ probe.st = "call"
  /\ probe' = [probe EXCEPT
       !.st = "ret",
       !.la = Level(probe.a, probe.bump, probe.fresher),
       !.da = Detail(probe.a, probe.bump, probe.fresher, YearsOfSpan(probe.a, probe.dated)),
       !.lb = Level(probe.b, probe.bump, probe.fresher),
       !.db = Detail(probe.b, probe.bump, probe.fresher,
                     YearsOfSpan(probe.b, probe.dated \/ probe.b > 0))]
  /\ UNCHANGED <<file, nlp, pc, raw_text, clean_raw_text, lines, data, i, current_section,
                 section_text, full_experience_text, years, estimated_years,
                 title_bump, result>>

LevelNext == CascadeCall

LevelSpec == LevelInit /\ [][LevelNext]_vars

-----------------------------------------------------------------------------
(* What the claims are stated with *)

ErrorRecord == ("Error" :> "Could not extract text.")

\* parse returned an analysis, not the error record
Analysed == pc = "done" /\ "Error" \notin DOMAIN result

\* the extracted text is empty or absent
NoText == raw_text = None \/ raw_text = Some("")

\* every four-digit token of t matching (19|20)dd, as a number, those from 1980 to
\* the current year, ascending
YearTokens(t) ==
  LET all == [k \in 1..Len(YearMatches(t)) |->
                IntOf(SubSeq(t, YearMatches(t)[k], YearMatches(t)[k] + 3))]
  IN  Sorted(SelectSeq(all, InRange))

SpanOf(ys) == IF ys = <<>> THEN 0 ELSE ys[Len(ys)] - ys[1]

\* the document "John Doe / john@x.com / 555-123-4567 / EXPERIENCE / Led team 2015 /
\* Managed project 2020"
ScenarioUnits ==
  <<"John Doe\njohn@x.com\n555-123-4567", "EXPERIENCE\nLed team 2015\nManaged project 2020">>

-----------------------------------------------------------------------------
(* C1 *)

\* C1: the detected years are the four-digit tokens (19|20)dd of the experience-only
\* text that lie in 1980..current year, estimated_years is their span (0 when there
\* is none), and the scenario document yields years [2015, 2020], estimated_years 5
\* and Experience_Level "Mid-Level".
C1_YearsAreTheYearTokens ==
  Analysed =>
    /\ years = YearTokens(full_experience_text)
    /\ estimated_years = SpanOf(YearTokens(full_experience_text))
    /\ file.units = ScenarioUnits =>
         /\ years = <<2015, 2020>>
         /\ estimated_years = 5
         /\ result["AI_Analysis"].Experience_Level = "Mid-Level"

-----------------------------------------------------------------------------
(* C2 *)

\* C2: when extract_text returns no text or an empty text (also when reading throws),
\* parse returns exactly {"Error": "Could not extract text."}, and the contact
\* extraction, the segmentation, the experience and the personality steps never run.
C2_NoTextGivesOnlyTheError ==
  (pc # "start" /\ (NoText \/ file.throws)) =>
    /\ pc \in {"extracted", "done"}
    /\ pc = "done" => result = ErrorRecord /\ DOMAIN result = {"Error"}
    /\ clean_raw_text = Unset /\ lines = <<>> /\ data = <<>>
    /\ i = 0 /\ section_text = <<>> /\ full_experience_text = Unset
    /\ years = <<>>

\* parse returned the error record for a PDF whose only page has no text
C2_Witness ==
  /\ pc = "done"
  /\ file.ext = ".pdf" /\ file.units = <<"">>
  /\ raw_text = Some("")
  /\ result = ErrorRecord

-----------------------------------------------------------------------------
(* C3 *)

\* the cascade as the claim words it: the first rule that matches gives the label
ClaimedLevel(est, bump, fresher) ==
  CASE est <= 1 /\ fresher -> "Fresher / Entry-Level"
    [] ~(est <= 1 /\ fresher) /\ est = 0 /\ ~bump -> "Entry-Level (Uncertain)"
    [] OTHER ->
         CASE est < 3 -> IF bump /\ est > 1 THEN "Junior-Mid" ELSE "Junior"
           [] est \in 3..6 -> IF bump THEN "Mid-Senior" ELSE "Mid-Level"
           [] est >= 7 -> "Senior"

\* C3: for every estimated_years, title_bump and fresher flag the label is the one of
\* the first matching rule: Fresher / Entry-Level for <= 1 year with a fresher
\* keyword; else Entry-Level (Uncertain) with "No dates found" for 0 years and no
\* bump; else Junior (< 3), Mid-Level (3..6), Senior (>= 7), raised to Junior-Mid
\* (bump, Junior, > 1 year) and to Mid-Senior (bump, Mid-Level).
C3_FirstMatchingRule ==
  probe.st = "ret" =>
    /\ probe.la = ClaimedLevel(probe.a, probe.bump, probe.fresher)
    /\ probe.lb = ClaimedLevel(probe.b, probe.bump, probe.fresher)
    /\ (probe.a = 0 /\ ~probe.bump /\ ~probe.fresher) =>
         probe.la = "Entry-Level (Uncertain)" /\ probe.da = "No dates found"

\* the cascade ran on 2 and on 6 years with a senior title: both upgrades happened
C3_Witness ==
  /\ probe.st = "ret"
  /\ probe.bump /\ ~probe.fresher
  /\ probe.a = 2 /\ probe.la = "Junior-Mid"
  /\ probe.b = 6 /\ probe.lb = "Mid-Senior"

-----------------------------------------------------------------------------
(* C4 *)

\* C4: whenever the experience-only text holds at least one valid year the detail is
\* "<estimated_years> Years detected (<min_year> - <max_year>)" with the smallest and
\* the largest such year, and "No dates found" is returned only when there is none.
C4_DetailNamesTheYears ==
  Analysed =>
    LET ys == YearTokens(full_experience_text)
        detail == result["AI_Analysis"].Experience_Detail
    IN  /\ ys # <<>> =>
             detail = StrOf(SpanOf(ys)) \o " Years detected (" \o StrOf(ys[1]) \o " - "
                      \o StrOf(ys[Len(ys)]) \o ")"
        /\ detail = "No dates found" => ys = <<>>

-----------------------------------------------------------------------------
(* C5 *)

\* the seniority order of the labels
Seniority ==
  ("Fresher / Entry-Level" :> 1) @@ ("Entry-Level (Uncertain)" :> 2) @@ ("Junior" :> 3)
  @@ ("Junior-Mid" :> 4) @@ ("Mid-Level" :> 5) @@ ("Mid-Senior" :> 6) @@ ("Senior" :> 7)

\* C5: with title_bump and the fresher flag fixed, for spans a <= b the label of b is
\* not below the label of a in the seniority order.
C5_MonotonicInSpan ==
  probe.st = "ret" =>
    /\ probe.la \in DOMAIN Seniority
    /\ probe.lb \in DOMAIN Seniority
    /\ Seniority[probe.la] <= Seniority[probe.lb]

\* the cascade ran on 0 and on 8 years: the label rose from the bottom to the top
C5_Witness ==
  /\ probe.st = "ret"
  /\ probe.a = 0 /\ probe.b = 8
  /\ probe.la = "Entry-Level (Uncertain)" /\ probe.lb = "Senior"

-----------------------------------------------------------------------------
(* The segmentation, said without the loop *)

\* a header line: it contains a keyword of some section and has fewer than 5 tokens
HeaderLine(l) ==
  LET low == Lower(Strip(l))
  IN  /\ \E t \in SectionTags : \E k \in 1..Len(sections_keywords[t]) :
            Contains(sections_keywords[t][k], low)
      /\ Len(Words(low)) < 5

\* the header lines among the first n
Headers(ls, n) == {h \in 1..n : HeaderLine(ls[h])}

\* the lines among the first n that belong to section t: not a header, not blank,
\* after a header, and the most recent header before them names t
ContentOf(ls, n, t) ==
  LET hs == Headers(ls, n)
      named == {h \in hs : HeaderSection(Lower(Strip(ls[h]))) = Some(t)}
  IN  {k \in 1..n :
         /\ k \notin hs
         /\ Strip(ls[k]) # ""
         /\ \E h \in named : h < k /\ \A g \in hs : g < k => g <= h}

\* those lines, stripped, in document order
SectionOf(ls, n, t) ==
  LET idx == SeqOfSet(ContentOf(ls, n, t)) IN [j \in 1..Len(idx) |-> Strip(ls[idx[j]])]

\* the lines of ls at the indices idx, each followed by a space
Joined(ls, idx) == Concat([j \in 1..Len(idx) |-> ls[idx[j]] \o " "], 1, Len(idx))

\* the text clean_text and split leave of what extract_text read from f
TextOf(f) == clean_text(extract_text(f)[1])

\* everything of an analysis but the personality profile, from the document alone
CoreOf(f) ==
  LET t == TextOf(f)
      ls == Split(t, "\n")
      exp_text == Joined(ls, SeqOfSet(ContentOf(ls, Len(ls), "experience")))
      est == EstimatedYears(DetectedYears(exp_text))
  IN  [name |-> FullName(ls), email |-> Email(t), phone |-> Phone(t),
       skills |-> SectionOf(ls, Len(ls), "skills"),
       education |-> SectionOf(ls, Len(ls), "education"),
       experience |-> SectionOf(ls, Len(ls), "experience"),
       achievements |-> SectionOf(ls, Len(ls), "achievements"),
       level |-> Level(est, TitleBump(t), HasFresherKeyword(t)),
       detail |-> Detail(est, TitleBump(t), HasFresherKeyword(t), DetectedYears(exp_text))]

\* the same fields of a returned record
CoreIn(r) ==
  [name |-> r["Full Name"], email |-> r["Email"], phone |-> r["Phone"],
   skills |-> r["Skills"], education |-> r["Education"], experience |-> r["Experience"],
   achievements |-> r["Achievements"],
   level |-> r["AI_Analysis"].Experience_Level,
   detail |-> r["AI_Analysis"].Experience_Detail]

-----------------------------------------------------------------------------
(* C6 *)

\* the rating the claim gives a score
ClaimedRating(score) ==
  CASE score >= 10 -> "High"
    [] score >= 4 /\ score < 10 -> "Medium"
    [] score > 0 /\ score < 4 -> "Low"
    [] score = 0 -> "Not Detected"

\* C6: with the tokenizer available every trait is reported as (rating, score) where
\* score is a natural number and rating is High for score >= 10, Medium for
\* 4 <= score < 10, Low for 0 < score < 4 and Not Detected for 0.
C6_RatingFollowsScore ==
  (Analysed /\ nlp # None) =>
    /\ DOMAIN result["AI_Analysis"].Personality = Traits
    /\ \A t \in Traits :
         LET r == result["AI_Analysis"].Personality[t]
         IN  r[2] \in Nat /\ r[1] = ClaimedRating(r[2])

\* one analysis with a trait at 10 (High), one at 4 (Medium) and one at 0
C6_Witness ==
  /\ Analysed
  /\ nlp # None
  /\ result["AI_Analysis"].Personality["Teamwork"] = <<"High", 10>>
  /\ result["AI_Analysis"].Personality["Leadership"] = <<"Medium", 4>>
  /\ result["AI_Analysis"].Personality["Communication"] = <<"Not Detected", 0>>

-----------------------------------------------------------------------------
(* C7 *)

\* C7: without the tokenizer (nlp is None) every one of the six traits is reported as
\* ("N/A", 0), parse still returns an analysis and not the error record, and the
\* contact fields, the sections and the experience estimate are what the document
\* alone determines, so the same as with the tokenizer available.
C7_DegradedPersonalityOnly ==
  /\ (pc = "done" /\ ~NoText) => Analysed /\ CoreIn(result) = CoreOf(file)
  /\ (pc = "done" /\ ~NoText /\ nlp = None) =>
       /\ Cardinality(DOMAIN result["AI_Analysis"].Personality) = 6
       /\ \A t \in DOMAIN result["AI_Analysis"].Personality :
            result["AI_Analysis"].Personality[t] = <<"N/A", 0>>

\* the scenario document analysed without the tokenizer: its text has personality
\* keywords, and its contact fields and its experience section were still filled
C7_Witness ==
  /\ Analysed
  /\ nlp = None
  /\ file.units = ScenarioUnits
  /\ Count(Lower(clean_raw_text), "team") > 0
  /\ result["Email"] = "john@x.com"
  /\ result["Experience"] = <<"Led team 2015", "Managed project 2020">>
  /\ result["AI_Analysis"].Personality["Teamwork"] = <<"N/A", 0>>

-----------------------------------------------------------------------------
(* C8 *)

ResultKeys == {"Full Name", "Email", "Phone", "Skills", "Education", "Experience",
               "Achievements", "AI_Analysis"}

LevelScale == {"Fresher / Entry-Level", "Entry-Level (Uncertain)", "Junior", "Junior-Mid",
               "Mid-Level", "Mid-Senior", "Senior", "Unknown"}

\* C8: for every non-empty extracted text parse always has its next step to take
\* (it passes the guard, and the loop index stays within the lines), and it returns
\* a record with exactly the keys Full Name, Email, Phone, Skills, Education, Experience,
\* Achievements and AI_Analysis; a contact field with no match is "Not Found", a
\* section with no content is the empty sequence and Experience_Level is a label of
\* the fixed scale.
C8_DefaultsNotFailures ==
  ~NoText =>
    /\ pc = "extracted" => ~Falsy(raw_text)
    /\ pc = "segment" => i \in 1..(Len(lines) + 1)
    /\ pc = "done" =>
         /\ DOMAIN result = ResultKeys
         /\ SearchEmail(clean_raw_text) = None => result["Email"] = "Not Found"
         /\ SearchPhone(clean_raw_text) = None => result["Phone"] = "Not Found"
         /\ (\A k \in 1..Len(lines) : k <= 5 => ~NameCandidate(lines[k]))
              => result["Full Name"] = "Not Found"
         /\ ContentOf(lines, Len(lines), "skills") = {} => result["Skills"] = <<>>
         /\ ContentOf(lines, Len(lines), "education") = {} => result["Education"] = <<>>
         /\ ContentOf(lines, Len(lines), "experience") = {} => result["Experience"] = <<>>
         /\ ContentOf(lines, Len(lines), "achievements") = {} => result["Achievements"] = <<>>
         /\ result["AI_Analysis"].Experience_Level \in LevelScale

\* a document with a section header and nothing else: the header line is taken
\* for the name, no email and no phone match, and no section has content
C8_Witness ==
  /\ Analysed
  /\ file.units = <<"Skills and Education", " ">>
  /\ result["Full Name"] = "Skills and Education"
  /\ result["Email"] = "Not Found"
  /\ result["Phone"] = "Not Found"
  /\ result["Skills"] = <<>> /\ result["Education"] = <<>>
  /\ result["Experience"] = <<>> /\ result["Achievements"] = <<>>
  /\ result["AI_Analysis"].Experience_Level = "Entry-Level (Uncertain)"

-----------------------------------------------------------------------------
(* C9 *)

NonBlank(l) == Strip(l) # ""

\* s with every element stripped
Stripped(ls) == [k \in 1..Len(ls) |-> Strip(ls[k])]

\* C9: for every non-empty raw text the line sequence parse builds keeps the
\* non-blank lines of the text in their order and holds no blank line, none that is
\* empty and none of whitespace only.
C9_NoBlankLineKept ==
  (pc \in {"segment", "done"} /\ ~NoText) =>
    /\ \A k \in 1..Len(lines) : NonBlank(lines[k])
    /\ Stripped(lines) = Stripped(SelectSeq(Split(raw_text[1], "\n"), NonBlank))

-----------------------------------------------------------------------------
(* C10 *)

\* the section contents are those of the lines the loop has been through
C10_Content ==
  (pc \in {"segment", "done"} /\ ~NoText) =>
    \A t \in SectionTags : section_text[t] = SectionOf(lines, i - 1, t)

\* current_section changes only in a round of the loop on a header line, and not to None
C10_Step ==
  current_section' # current_section =>
    /\ pc = "segment" /\ i <= Len(lines)
    /\ HeaderLine(lines[i])
    /\ current_section' # None

\* C10: throughout and after the segmentation loop no header line and no line before
\* the first header is in any section's content, every other non-blank line is,
\* once, in the section named by the most recent header before it, each section in
\* document order; and current_section changes only on a header line and never
\* back to None.
C10_Segmentation == [][C10_Step]_vars /\ []C10_Content

\* the loop ended with two sections filled, a blank line met inside a section and
\* headers skipped
C10_Witness ==
  /\ Analysed
  /\ section_text["experience"] = <<"Led team 2015", "Managed project 2020">>
  /\ section_text["projects"] = <<"mentored teams", "2019">>
  /\ \E k \in 1..Len(lines) : Strip(lines[k]) = ""
  /\ current_section = Some("projects")

-----------------------------------------------------------------------------
(* C11 *)

\* the table order the tie-break goes by
TableOrder == <<"education", "skills", "experience", "achievements", "projects">>

\* the places in TableOrder of the sections of which l holds a keyword
MatchingSections(l) ==
  {k \in 1..Len(TableOrder) :
     \E j \in 1..Len(sections_keywords[TableOrder[k]]) :
        Contains(sections_keywords[TableOrder[k]][j], Lower(Strip(l)))}

\* a line of fewer than 5 tokens with keywords of more than one section
MultiKeywordHeader(l) ==
  Len(Words(Lower(Strip(l)))) < 5 /\ Cardinality(MatchingSections(l)) > 1

\* a round of the loop on such a line switches to the first matching section of the
\* table order and adds nothing to any section
C11_Step ==
  (pc = "segment" /\ i <= Len(lines) /\ MultiKeywordHeader(lines[i]) /\ i' # i) =>
    /\ current_section' = Some(TableOrder[Min(MatchingSections(lines[i]))])
    /\ section_text' = section_text
    /\ full_experience_text' = full_experience_text
    /\ i' = i + 1

\* such a line is in no section's content, at no time
C11_Discarded ==
  (pc \in {"segment", "done"} /\ ~NoText) =>
    \A k \in 1..Len(lines) : MultiKeywordHeader(lines[k]) =>
       \A t \in SectionTags : \A j \in 1..Len(section_text[t]) :
          section_text[t][j] # Strip(lines[k])

\* C11: a line of fewer than 5 tokens that holds keywords of more than one section
\* switches the current section to the first matching section of the table order
\* (education, skills, experience, achievements, projects) and to no other, the
\* round of the loop on it adds nothing to any section, and the line is never in
\* any section's content.
C11_FirstSectionWins == [][C11_Step]_vars /\ []C11_Discarded

\* "Skills and Education" names skills first but education is first in the table:
\* the line that follows it went to education, none to skills, and the header
\* itself to neither
C11_Witness ==
  /\ Analysed
  /\ file.units = <<"Skills and Education", "team group member joint">>
  /\ MultiKeywordHeader(lines[1])
  /\ MatchingSections(lines[1]) = {1, 2}
  /\ current_section = Some("education")
  /\ result["Education"] = <<"team group member joint">>
  /\ result["Skills"] = <<>>

====
